---- MODULE Spec2Model ----
(***************************************************************************)
(* Model of app.py: the Excel comparison tool.                             *)
(*                                                                         *)
(*   compare_excel_files  the comparison itself (a pure function of the    *)
(*                        two workbooks, plus two files it writes)         *)
(*   compare_files        the /compare handler                             *)
(*   download_file        the /download/<filename> handler                 *)
(*                                                                         *)
(* SpecCompare applies compare_excel_files to every pair of workbooks of a *)
(* bounded family; Spec runs the web application with two concurrent       *)
(* clients over the two shared folders.                                    *)
(***************************************************************************)
EXTENDS Integers, Sequences, FiniteSets, TLC

VARIABLES
    file1, file2,        \* SpecCompare: the two workbooks handed to compare_excel_files
    outcome,             \* SpecCompare: what compare_excel_files returned (NotRun before the call)
    uploads,             \* Spec: the uploads/ folder, file name -> workbook (NoFile when absent)
    processed,           \* the processed/ folder, file name -> table (NoTable when absent)
    pc,                  \* Spec: per client, where it is in its request
    req,                 \* Spec: per client, the multipart form of its /compare request
    resp,                \* Spec: per client, the response to its last /compare
    dl,                  \* Spec: per client, the response to its last /download since then
    console,             \* the last line compare_excel_files printed
    comparedThisRun,     \* Spec: whether compare_excel_files has run since the process started
    lastCompare          \* Spec: outcome of the most recently completed /compare ("none", "ok", "failed")

vars == <<file1, file2, outcome, uploads, processed, pc, req, resp, dl, console,
          comparedThisRun, lastCompare>>

---------------------------------------------------------------------------
(* Bounds of the model. *)

MaxRows == 2       \* rows per workbook in the bounded family

---------------------------------------------------------------------------
(* Cells.  A cell read by pandas.read_excel is a number, an empty cell     *)
(* (NaN) or a text cell.                                                   *)

Num(n) == [t |-> "num", v |-> n]
NaN    == [t |-> "nan", v |-> 0]
Str    == [t |-> "str", v |-> 0]

notna(c) == c.t # "nan"

AwbValues    == {1, 2}
WeightValues == {1, 3}
WeightCells  == {Num(n) : n \in WeightValues} \cup {NaN}

---------------------------------------------------------------------------
(* Column names are sequences of characters, so that str.strip() and       *)
(* str.lower() are computed and not assumed.                               *)

UpperCase == <<"A","B","C","D","E","F","G","H","I","J","K","L","M",
               "N","O","P","Q","R","S","T","U","V","W","X","Y","Z">>
LowerCase == <<"a","b","c","d","e","f","g","h","i","j","k","l","m",
               "n","o","p","q","r","s","t","u","v","w","x","y","z">>

IsSpace(c) == c \in {" ", "\t", "\n"}

RECURSIVE lstrip(_)
lstrip(s) == IF s # <<>> /\ IsSpace(Head(s)) THEN lstrip(Tail(s)) ELSE s

RECURSIVE rstrip(_)
rstrip(s) ==
    IF s # <<>> /\ IsSpace(s[Len(s)]) THEN rstrip(SubSeq(s, 1, Len(s) - 1)) ELSE s

strip(s) == rstrip(lstrip(s))

lowerChar(c) ==
    IF \E i \in 1..Len(UpperCase) : UpperCase[i] = c
    THEN LowerCase[CHOOSE i \in 1..Len(UpperCase) : UpperCase[i] = c]
    ELSE c

lower(s) == [i \in 1..Len(s) |-> lowerChar(s[i])]

\* A plausible slip: lowercasing without stripping.
normalize_nostrip(name) == lower(name)

\* df.columns.str.strip().str.lower(), one name
normalize(name) == lower(strip(name))

normalize_columns(cols) == [i \in 1..Len(cols) |-> normalize(cols[i])]

\* the two literals 'awb number' and 'weight'
awb_number == <<"a","w","b"," ","n","u","m","b","e","r">>
weight     == <<"w","e","i","g","h","t">>

HasColumn(cols, name) == \E i \in 1..Len(cols) : cols[i] = name
ColumnIndex(cols, name) == CHOOSE i \in 1..Len(cols) : cols[i] = name

---------------------------------------------------------------------------
(* Workbooks.  A workbook is what pd.read_excel finds at a path: either it  *)
(* cannot be read, or it has a header row and data rows (one cell per      *)
(* column).                                                                *)

Workbook(cols, rows) == [readable |-> TRUE, cols |-> cols, rows |-> rows]
Unreadable == [readable |-> FALSE, cols |-> <<>>, rows |-> <<>>]

\* Errors raised inside compare_excel_files: a kind and the message, the
\* message as the sequence of its parts.
NoError == [kind |-> "none", msg |-> <<>>]

ReadError == [kind |-> "read_excel", msg |-> <<"the workbook cannot be read">>]

TypeError == [kind |-> "TypeError", msg |-> <<"unsupported operand type(s) for -">>]

FileName(n) == IF n = 1 THEN "File 1" ELSE "File 2"

\* raise ValueError("File n is missing required columns: 'AWB number' and/or 'Weight'.")
MissingColumnsError(n) ==
    [kind |-> "ValueError",
     msg  |-> <<FileName(n), " is missing required columns: ",
                "'AWB number'", " and/or ", "'Weight'", ".">>]

\* 'awb number' not in df.columns or 'weight' not in df.columns
missing_required(cols) == ~HasColumn(cols, awb_number) \/ ~HasColumn(cols, weight)

\* df[['awb number', 'weight']]: the two named columns of every row
project(cols, rows) ==
    [i \in 1..Len(rows) |->
        [awb    |-> rows[i][ColumnIndex(cols, awb_number)].v,
         weight |-> rows[i][ColumnIndex(cols, weight)]]]

---------------------------------------------------------------------------
(* pd.merge(df1, df2, on='awb number', how='outer', indicator=True,        *)
(*          suffixes=('_file1', '_file2'))                                 *)

KeysOf(df) == {df[i].awb : i \in 1..Len(df)}

RowsWithKey(df, k) == SelectSeq(df, LAMBDA r : r.awb = k)

RECURSIVE SortedKeys(_)
SortedKeys(S) ==
    IF S = {} THEN <<>>
    ELSE LET m == CHOOSE x \in S : \A y \in S : x <= y
         IN  <<m>> \o SortedKeys(S \ {m})

JoinedRow(k, w1, w2, ind) ==
    [awb |-> k, weight_file1 |-> w1, weight_file2 |-> w2, indicator |-> ind]

\* A plausible slip: the first row of a duplicated key wins on each side.
merge_key_first_match(left, right, k) ==
    LET L == RowsWithKey(left, k)
        R == RowsWithKey(right, k)
    IN  IF L # <<>> /\ R # <<>>
        THEN <<JoinedRow(k, L[1].weight, R[1].weight, "both")>>
        ELSE IF L # <<>>
        THEN <<JoinedRow(k, L[1].weight, NaN, "left_only")>>
        ELSE <<JoinedRow(k, NaN, R[1].weight, "right_only")>>

\* the rows the join produces for one key: every left row with every right
\* row, or the rows of the only side that has the key, the other side NaN
merge_key(left, right, k) ==
    LET L == RowsWithKey(left, k)
        R == RowsWithKey(right, k)
        m == Len(L)
        n == Len(R)
    IN  IF m > 0 /\ n > 0
        THEN [p \in 1..(m * n) |->
                JoinedRow(k, L[((p - 1) \div n) + 1].weight,
                             R[((p - 1) % n) + 1].weight, "both")]
        ELSE IF m > 0
        THEN [p \in 1..m |-> JoinedRow(k, L[p].weight, NaN, "left_only")]
        ELSE [p \in 1..n |-> JoinedRow(k, NaN, R[p].weight, "right_only")]

RECURSIVE merge_keys(_, _, _)
merge_keys(left, right, ks) ==
    IF ks = <<>> THEN <<>>
    ELSE merge_key(left, right, Head(ks)) \o merge_keys(left, right, Tail(ks))

\* A plausible slip: how='left'.
merge_left(left, right) == merge_keys(left, right, SortedKeys(KeysOf(left)))

\* how='outer': the keys of both sides, in sorted order
merge(left, right) ==
    merge_keys(left, right, SortedKeys(KeysOf(left) \cup KeysOf(right)))

---------------------------------------------------------------------------
(* (merged_df['weight_file1'] - merged_df['weight_file2']).abs()           *)

\* Subtracting the two weight columns raises when a text cell meets a
\* non-empty cell.  A text cell opposite an empty cell is skipped by
\* pandas' masked arithmetic on object columns (masked), and raises where
\* the column is not handled that way.
subtract_raises(merged, masked) ==
    \E i \in 1..Len(merged) :
        LET a == merged[i].weight_file1
            b == merged[i].weight_file2
        IN  /\ a.t = "str" \/ b.t = "str"
            /\ masked => (notna(a) /\ notna(b))

subtract(a, b) ==
    IF a.t = "num" /\ b.t = "num" THEN Num(a.v - b.v) ELSE NaN

abs(c) == IF c.t = "num" /\ c.v < 0 THEN Num(0 - c.v) ELSE c

weight_diff(a, b) == abs(subtract(a, b))

\* merged_df with its RangeIndex and the weight_diff column
with_weight_diff(merged) ==
    [i \in 1..Len(merged) |->
        [idx          |-> i - 1,
         awb          |-> merged[i].awb,
         weight_file1 |-> merged[i].weight_file1,
         weight_file2 |-> merged[i].weight_file2,
         indicator    |-> merged[i].indicator,
         weight_diff  |-> weight_diff(merged[i].weight_file1, merged[i].weight_file2)]]

drop_merge(r) ==
    [idx |-> r.idx, awb |-> r.awb, weight_file1 |-> r.weight_file1,
     weight_file2 |-> r.weight_file2, weight_diff |-> r.weight_diff]

drop_indicator(df) == [i \in 1..Len(df) |-> drop_merge(df[i])]

\* A plausible slip: everything the left file has counts as matching.
matching_rows_not_right(merged_df) ==
    drop_indicator(SelectSeq(merged_df, LAMBDA r : r.indicator # "right_only"))

\* merged_df[merged_df['_merge'] == 'both'].drop(columns=['_merge'])
matching_rows(merged_df) ==
    drop_indicator(SelectSeq(merged_df, LAMBDA r : r.indicator = "both"))

\* merged_df[merged_df['_merge'] != 'both'].drop(columns=['_merge'])
mismatching_rows(merged_df) ==
    drop_indicator(SelectSeq(merged_df, LAMBDA r : r.indicator # "both"))

---------------------------------------------------------------------------
(* compare_excel_files, up to the two to_excel calls: what it returns and  *)
(* what it raised on the way (caught by its except clause).                *)

Failure(e) == [ok |-> FALSE, matching |-> <<>>, mismatching |-> <<>>, raised |-> e]
Success(m, u) == [ok |-> TRUE, matching |-> m, mismatching |-> u, raised |-> NoError]

compare_frames(wb1, wb2, masked) ==
    IF ~wb1.readable \/ ~wb2.readable THEN Failure(ReadError)
    ELSE
    LET cols1 == normalize_columns(wb1.cols)
        cols2 == normalize_columns(wb2.cols)
    IN  IF missing_required(cols1) THEN Failure(MissingColumnsError(1))
        ELSE IF missing_required(cols2) THEN Failure(MissingColumnsError(2))
        ELSE
        LET df1_processed == project(cols1, wb1.rows)
            df2_processed == project(cols2, wb2.rows)
            merged == merge(df1_processed, df2_processed)
        IN  IF subtract_raises(merged, masked) THEN Failure(TypeError)
            ELSE LET merged_df == with_weight_diff(merged)
                 IN  Success(matching_rows(merged_df), mismatching_rows(merged_df))

\* DataFrame.to_excel(path, index=False): the table without its index
to_excel(df) ==
    [i \in 1..Len(df) |->
        [awb |-> df[i].awb, weight_file1 |-> df[i].weight_file1,
         weight_file2 |-> df[i].weight_file2, weight_diff |-> df[i].weight_diff]]

---------------------------------------------------------------------------
(* The two folders and the two result files.                               *)

MatchingName    == "matching_awb_numbers.xlsx"
MismatchingName == "mismatching_awb_numbers.xlsx"
ResultNames     == {MatchingName, MismatchingName}

\* names a client may ask /download for: the two results and one other
DownloadNames == ResultNames \cup {"other.xlsx"}

\* names a client may give its uploads
UploadNames == {"a.xlsx", "b.xlsx"}

NoFile  == [present |-> FALSE, content |-> Unreadable]
NoTable == [present |-> FALSE, table |-> <<>>]
Stored(wb)   == [present |-> TRUE, content |-> wb]
Written(tbl) == [present |-> TRUE, table |-> tbl]

\* os.path.join(PROCESSED_FOLDER, ...) and the two to_excel calls: reached
\* only when nothing was raised before them
save_results(folder, r) ==
    IF r.ok
    THEN [n \in DOMAIN folder |->
            IF n = MatchingName THEN Written(to_excel(r.matching))
            ELSE IF n = MismatchingName THEN Written(to_excel(r.mismatching))
            ELSE folder[n]]
    ELSE folder

\* print(f"Error comparing the Excel files: {e}")
print_error(line, r) ==
    IF r.ok THEN line ELSE <<"Error comparing the Excel files: ">> \o r.raised.msg

Clients == {1, 2}

NoRequest == [name1 |-> "", wb1 |-> Unreadable, name2 |-> "", wb2 |-> Unreadable]
NoResponse == [status |-> 0, body |-> <<>>, matching |-> <<>>, mismatching |-> <<>>]
NoDownload == [name |-> "", error |-> "none", file |-> NoTable, early |-> FALSE]

NotRun == [ok |-> FALSE, matching |-> <<>>, mismatching |-> <<>>,
           raised |-> [kind |-> "notrun", msg |-> <<>>]]

\* the state of the application and its folders when nothing has happened
ServerIdle ==
    /\ uploads = [n \in UploadNames |-> NoFile]
    /\ pc = [c \in Clients |-> "idle"]
    /\ req = [c \in Clients |-> NoRequest]
    /\ resp = [c \in Clients |-> NoResponse]
    /\ dl = [c \in Clients |-> NoDownload]
    /\ comparedThisRun = FALSE
    /\ lastCompare = "none"

---------------------------------------------------------------------------
(* The bounded family of workbooks compare_excel_files is applied to.      *)

remarks == <<"R","e","m","a","r","k","s">>

HdrPlain    == <<awb_number, weight>>
HdrPadded   == <<<<" ","A","W","B"," ","N","u","m","b","e","r"," ">>,
                 <<"W","e","i","g","h","t"," ">>>>
HdrExtra    == <<remarks, <<" ","W","E","I","G","H","T">>, <<"A","w","b"," ","n","u","m","b","e","r">>>>
HdrNoWeight == <<awb_number, <<"w","t">>>>
HdrNoAwb    == <<<<"a","w","b">>, weight>>
HdrNoSpace  == <<<<"a","w","b","n","u","m","b","e","r">>, weight>>

\* where a sample header keeps the key and the weight of a row
Layouts ==
    { [cols |-> HdrPlain,    awbAt |-> 1, weightAt |-> 2],
      [cols |-> HdrPadded,   awbAt |-> 1, weightAt |-> 2],
      [cols |-> HdrExtra,    awbAt |-> 3, weightAt |-> 2],
      [cols |-> HdrNoWeight, awbAt |-> 1, weightAt |-> 2],
      [cols |-> HdrNoAwb,    awbAt |-> 1, weightAt |-> 2],
      [cols |-> HdrNoSpace,  awbAt |-> 1, weightAt |-> 2] }

PlainLayout == [cols |-> HdrPlain, awbAt |-> 1, weightAt |-> 2]

\* a data row: key and weight where the layout puts them, an unrelated
\* number in every other column
DataRow(layout, r) ==
    [i \in 1..Len(layout.cols) |->
        IF i = layout.awbAt THEN Num(r.awb)
        ELSE IF i = layout.weightAt THEN r.weight
        ELSE Num(7)]

Sheet(layout, recs) ==
    Workbook(layout.cols, [i \in 1..Len(recs) |-> DataRow(layout, recs[i])])

\* rows of the plain workbooks: every key with every number or empty cell
Records == [awb : AwbValues, weight : WeightCells]

SeqsUpTo(S, n) == UNION {[1..m -> S] : m \in 0..n}

\* rows given to every sample header, text cells among them
SampleRecords ==
    { <<[awb |-> 1, weight |-> Num(1)]>>,
      <<[awb |-> 1, weight |-> Num(3)], [awb |-> 2, weight |-> Num(1)]>>,
      <<[awb |-> 1, weight |-> Str]>>,
      <<[awb |-> 2, weight |-> Str], [awb |-> 1, weight |-> Num(1)]>> }

Workbooks ==
    {Sheet(PlainLayout, recs) : recs \in SeqsUpTo(Records, MaxRows)}
    \cup {Sheet(l, recs) : l \in Layouts, recs \in SampleRecords}
    \cup {Unreadable}

---------------------------------------------------------------------------
(* SpecCompare: compare_excel_files applied once to a pair of workbooks.   *)

InitCompare ==
    /\ file1 \in Workbooks
    /\ file2 \in Workbooks
    /\ outcome = NotRun
    /\ processed = [n \in DownloadNames |-> NoTable]
    /\ console = <<>>
    /\ ServerIdle

\* compare_excel_files(file1_path, file2_path)
CompareExcelFiles ==
    /\ outcome = NotRun
    /\ \E masked \in BOOLEAN :
          LET r == compare_frames(file1, file2, masked)
          IN  /\ outcome' = r
              /\ processed' = save_results(processed, r)
              /\ console' = print_error(console, r)
    /\ UNCHANGED <<file1, file2, uploads, pc, req, resp, dl, comparedThisRun, lastCompare>>

NextCompare == CompareExcelFiles

SpecCompare == InitCompare /\ [][NextCompare]_vars

---------------------------------------------------------------------------
(* Properties of compare_excel_files (SpecCompare).                        *)

Called == outcome # NotRun

\* the two datasets as the comparison sees them, once both have the columns
DatasetA == project(normalize_columns(file1.cols), file1.rows)
DatasetB == project(normalize_columns(file2.cols), file2.rows)

Count(df, k) == Len(RowsWithKey(df, k))

\* rows the full outer join holds for key k
OuterRows(k) ==
    IF Count(DatasetA, k) > 0 /\ Count(DatasetB, k) > 0
    THEN Count(DatasetA, k) * Count(DatasetB, k)
    ELSE Count(DatasetA, k) + Count(DatasetB, k)

RECURSIVE OuterJoinSize(_)
OuterJoinSize(ks) ==
    IF ks = {} THEN 0
    ELSE LET k == CHOOSE x \in ks : TRUE
         IN  OuterRows(k) + OuterJoinSize(ks \ {k})

AllKeys == KeysOf(DatasetA) \cup KeysOf(DatasetB)

\* C1 (completeness): when the comparison succeeds, matched and unmatched
\* together hold as many rows as the full outer join of the two datasets on
\* the key, duplicates counted with their outer-join multiplicity, and every
\* key of either dataset occurs in one of the two result sets.
C1_Completeness ==
    outcome.ok =>
        /\ Len(outcome.matching) + Len(outcome.mismatching) = OuterJoinSize(AllKeys)
        /\ \A k \in AllKeys :
              k \in KeysOf(outcome.matching) \cup KeysOf(outcome.mismatching)

C1_Witness ==
    /\ outcome.ok
    /\ Len(outcome.matching) >= 2
    /\ Len(outcome.mismatching) >= 1
    /\ KeysOf(DatasetA) # KeysOf(DatasetB)

IndexOf(df) == {df[i].idx : i \in 1..Len(df)}

AbsDiff(a, b) == IF a >= b THEN a - b ELSE b - a

\* C3 (diff correctness), as claimed: every matched row's weight_diff is a
\* number, the absolute difference of its two weights, and every unmatched
\* row's weight_diff is unset.
C3_DiffCorrectness ==
    outcome.ok =>
        /\ \A i \in 1..Len(outcome.matching) :
              LET r == outcome.matching[i]
              IN  /\ r.weight_diff.t = "num"
                  /\ r.weight_diff.v = AbsDiff(r.weight_file1.v, r.weight_file2.v)
        /\ \A i \in 1..Len(outcome.mismatching) :
              outcome.mismatching[i].weight_diff = NaN

HasBothColumns(wb) ==
    /\ wb.readable
    /\ ~missing_required(normalize_columns(wb.cols))

NonNumericWeight(df) == \E i \in 1..Len(df) : df[i].weight.t # "num"

\* C9 (value coercion), as claimed: a weight cell that is not numeric, an
\* empty one included, in either file makes the whole comparison fail.
C9_ValueCoercion ==
    (/\ Called
     /\ HasBothColumns(file1) /\ HasBothColumns(file2)
     /\ NonNumericWeight(DatasetA) \/ NonNumericWeight(DatasetB))
    => ~outcome.ok

MatchedFor(k) == SelectSeq(outcome.matching, LAMBDA r : r.awb = k)
UnmatchedFor(k) == SelectSeq(outcome.mismatching, LAMBDA r : r.awb = k)

\* C10 (duplicate keys): a key m times in A and n times in B gives m*n
\* matched rows and no unmatched row when both are at least 1, and m
\* (respectively n) unmatched rows and no matched row when the other side
\* lacks it; where B has the key once, every matched row of the key carries
\* B's single weight.
C10_DuplicateKeys ==
    outcome.ok =>
        \A k \in AllKeys :
            LET m == Count(DatasetA, k)
                n == Count(DatasetB, k)
            IN  /\ (m >= 1 /\ n >= 1) =>
                      /\ Len(MatchedFor(k)) = m * n
                      /\ UnmatchedFor(k) = <<>>
                /\ (m = 0 \/ n = 0) =>
                      /\ Len(UnmatchedFor(k)) = m + n
                      /\ MatchedFor(k) = <<>>
                /\ (m >= 1 /\ n = 1) =>
                      \A i \in 1..Len(MatchedFor(k)) :
                          MatchedFor(k)[i].weight_file2 = RowsWithKey(DatasetB, k)[1].weight

C10_Witness ==
    /\ outcome.ok
    /\ \E k \in AllKeys :
          /\ Count(DatasetA, k) = 2
          /\ Count(DatasetB, k) = 1
          /\ DatasetA[1].weight # DatasetA[2].weight
          /\ Len(MatchedFor(k)) = 2

Mentions(msg, part) == \E i \in 1..Len(msg) : msg[i] = part

\* the required columns a workbook lacks, by the name the message gives them
MissingNames(wb) ==
    LET cols == normalize_columns(wb.cols)
    IN  {n \in {"'AWB number'", "'Weight'"} :
            \/ n = "'AWB number'" /\ ~HasColumn(cols, awb_number)
            \/ n = "'Weight'" /\ ~HasColumn(cols, weight)}

\* a workbook with its unrelated columns removed
RequiredAt(wb) ==
    SelectSeq([i \in 1..Len(wb.cols) |-> i],
              LAMBDA i : normalize(wb.cols[i]) \in {awb_number, weight})

WithoutExtras(wb) ==
    LET keep == RequiredAt(wb)
    IN  Workbook([j \in 1..Len(keep) |-> wb.cols[keep[j]]],
                 [r \in 1..Len(wb.rows) |->
                    [j \in 1..Len(keep) |-> wb.rows[r][keep[j]]]])

\* the error, as printed, names file n and every required column that file lacks
NamesFileAndColumns(n, wb) ==
    /\ ~outcome.ok
    /\ outcome.raised.kind = "ValueError"
    /\ Mentions(console, FileName(n))
    /\ ~Mentions(console, FileName(3 - n))
    /\ \A c \in MissingNames(wb) : Mentions(console, c)

---------------------------------------------------------------------------
(* Spec: the web application.  Two clients post /compare forms and fetch   *)
(* /download/<filename>; the development server runs their handlers in     *)
(* threads, so a handler's steps interleave with the other client's.  The  *)
(* two folders outlive the process.                                        *)

\* DataFrame[[...4 columns...]].to_html(index=False)
to_html(df) ==
    [i \in 1..Len(df) |->
        [awb |-> df[i].awb, weight_file1 |-> df[i].weight_file1,
         weight_file2 |-> df[i].weight_file2, weight_diff |-> df[i].weight_diff]]

GenericBody == <<"There was an error processing the files.">>
BothFilesBody == <<"Please upload both files.">>

\* the rendered results page, or the 500 response
compare_response(r) ==
    IF r.ok
    THEN [status |-> 200, body |-> <<"File Comparison Results">>,
          matching |-> to_html(r.matching), mismatching |-> to_html(r.mismatching)]
    ELSE [status |-> 500, body |-> GenericBody, matching |-> <<>>, mismatching |-> <<>>]

\* the workbooks clients upload
WbA    == Sheet(PlainLayout, <<[awb |-> 1, weight |-> Num(1)], [awb |-> 2, weight |-> Num(3)]>>)
WbB    == Sheet(PlainLayout, <<[awb |-> 1, weight |-> Num(3)]>>)
WbText == Sheet(PlainLayout, <<[awb |-> 1, weight |-> Str]>>)
WbBad  == Sheet([cols |-> HdrNoWeight, awbAt |-> 1, weightAt |-> 2],
                <<[awb |-> 1, weight |-> Num(1)]>>)

Form(w1, w2) == [name1 |-> "a.xlsx", wb1 |-> w1, name2 |-> "b.xlsx", wb2 |-> w2]

\* the forms clients post: two that compare, and one for each way to fail
Forms ==
    { Form(WbA, WbB), Form(WbB, WbA),
      Form(WbBad, WbA), Form(WbText, WbB), Form(Unreadable, WbA) }

Init ==
    /\ file1 = Unreadable
    /\ file2 = Unreadable
    /\ outcome = NotRun
    /\ processed = [n \in DownloadNames |-> NoTable]
    /\ console = <<>>
    /\ ServerIdle

\* compare_files, a form without both files: the 400 response
PostIncomplete(c) ==
    /\ pc[c] = "idle"
    /\ resp' = [resp EXCEPT ![c] = [status |-> 400, body |-> BothFilesBody,
                                    matching |-> <<>>, mismatching |-> <<>>]]
    /\ req' = [req EXCEPT ![c] = NoRequest]
    /\ dl' = [dl EXCEPT ![c] = NoDownload]
    /\ UNCHANGED <<file1, file2, outcome, uploads, processed, pc, console,
                   comparedThisRun, lastCompare>>

\* compare_files up to the two save calls: file1.save(...), file2.save(...)
SaveUploads(c) ==
    /\ pc[c] = "idle"
    /\ \E f \in Forms :
          /\ req' = [req EXCEPT ![c] = f]
          /\ uploads' = [n \in DOMAIN uploads |->
                            IF n = f.name2 THEN Stored(f.wb2)
                            ELSE IF n = f.name1 THEN Stored(f.wb1)
                            ELSE uploads[n]]
    /\ pc' = [pc EXCEPT ![c] = "saved"]
    /\ resp' = [resp EXCEPT ![c] = NoResponse]
    /\ dl' = [dl EXCEPT ![c] = NoDownload]
    /\ UNCHANGED <<file1, file2, outcome, processed, console, comparedThisRun, lastCompare>>

\* compare_files from the call of compare_excel_files to its response
RunCompare(c) ==
    /\ pc[c] = "saved"
    /\ \E masked \in BOOLEAN :
          LET r == compare_frames(uploads[req[c].name1].content,
                                  uploads[req[c].name2].content, masked)
          IN  /\ processed' = save_results(processed, r)
              /\ console' = print_error(console, r)
              /\ resp' = [resp EXCEPT ![c] = compare_response(r)]
              /\ lastCompare' = IF r.ok THEN "ok" ELSE "failed"
    /\ pc' = [pc EXCEPT ![c] = "idle"]
    /\ comparedThisRun' = TRUE
    /\ UNCHANGED <<file1, file2, outcome, uploads, req, dl>>

\* download_file(filename): send_file(os.path.join(PROCESSED_FOLDER, filename))
Download(c, filename) ==
    /\ pc[c] = "idle"
    /\ dl' = [dl EXCEPT ![c] =
                IF processed[filename].present
                THEN [name |-> filename, error |-> "none",
                      file |-> processed[filename], early |-> ~comparedThisRun]
                ELSE [name |-> filename, error |-> "FileNotFoundError",
                      file |-> NoTable, early |-> ~comparedThisRun]]
    /\ UNCHANGED <<file1, file2, outcome, uploads, processed, pc, req, resp, console,
                   comparedThisRun, lastCompare>>

\* the process is stopped and started again: os.makedirs(..., exist_ok=True)
\* keeps both folders and what they hold
Restart ==
    /\ comparedThisRun
    /\ pc' = [c \in Clients |-> "idle"]
    /\ req' = [c \in Clients |-> NoRequest]
    /\ resp' = [c \in Clients |-> NoResponse]
    /\ dl' = [c \in Clients |-> NoDownload]
    /\ console' = <<>>
    /\ comparedThisRun' = FALSE
    /\ lastCompare' = "none"
    /\ UNCHANGED <<file1, file2, outcome, uploads, processed>>

Next ==
    \/ \E c \in Clients : PostIncomplete(c)
    \/ \E c \in Clients : SaveUploads(c)
    \/ \E c \in Clients : RunCompare(c)
    \/ \E c \in Clients, filename \in DownloadNames : Download(c, filename)
    \/ Restart

Spec == Init /\ [][Next]_vars

---------------------------------------------------------------------------
(* Properties of the web application (Spec), as claimed.                   *)

\* C4 (atomic failure), as claimed: once a /compare request has failed, no
\* result table can be fetched, one left by an earlier successful request
\* included; once one has succeeded, exactly the two named tables can.
C4_AtomicFailure ==
    /\ lastCompare = "failed" => \A n \in DownloadNames : ~processed[n].present
    /\ lastCompare = "ok" =>
          {n \in DownloadNames : processed[n].present} = ResultNames

\* C5 (download not found), as claimed: a download asked for before any
\* comparison of the current run, or under a name that is not one of the
\* two result tables, ends in a not-found error and carries no content.
C5_DownloadNotFound ==
    \A c \in Clients :
        (dl[c].name # "" /\ (dl[c].early \/ dl[c].name \notin ResultNames)) =>
            /\ dl[c].error = "FileNotFoundError"
            /\ ~dl[c].file.present

\* what compare_excel_files makes of a client's own two workbooks
OwnResults(c) == {compare_frames(req[c].wb1, req[c].wb2, b) : b \in BOOLEAN}

\* C6 (request isolation), as claimed: whatever the interleaving, the tables
\* a request renders and the artifacts its client downloads afterwards are
\* those of that request's own two input files.
C6_RequestIsolation ==
    \A c \in Clients :
        /\ resp[c].status \in {200, 500} =>
              \E r \in OwnResults(c) : resp[c] = compare_response(r)
        /\ (resp[c].status = 200 /\ dl[c].name \in ResultNames) =>
              \E r \in OwnResults(c) :
                  /\ r.ok
                  /\ dl[c].file = save_results(processed, r)[dl[c].name]

\* responses that carry the kind and the message of the error raised
ErrorBodies ==
    {<<e.kind>> \o e.msg :
        e \in {ReadError, TypeError, MissingColumnsError(1), MissingColumnsError(2)}}

\* C8 (error propagation), as claimed: the response to a failed /compare
\* carries the kind and the message of the error that was raised, never a
\* generic outcome in its place.
C8_ErrorPropagation ==
    \A c \in Clients :
        resp[c].status = 500 =>
            /\ resp[c].body \in ErrorBodies
            /\ resp[c].body # GenericBody

====
